---- MODULE Spec2Model ----
(***************************************************************************)
(* Model of the hand-gesture stabilisation loop of                         *)
(* src/components/GestureController.tsx (GotYoo/Beautiful-Christmas-Tree). *)
(*                                                                         *)
(* The loop is the async callback runDetection, re-armed through           *)
(* requestAnimationFrame.  Its only suspension point is the await of       *)
(* model.estimateHands, so one execution of runDetection is modelled by    *)
(* two atomic steps: the synchronous prefix (FrameFromEffect /             *)
(* FrameFromLoop) and the continuation after the await (EstimateResolve).  *)
(*                                                                         *)
(* Numbers: JavaScript doubles are modelled by exact rationals             *)
(* [num, den] in lowest terms; times are integers in milliseconds.         *)
(***************************************************************************)
EXTENDS Integers, Sequences, FiniteSets, TLC

VARIABLES
    modelState,         \* "loading" | "ready" | "failed"  (model / loading state)
    mounted,            \* component mounted: webcamRef.current is non-null
    rafEffect,          \* the frame request made by the loop effect (`timer`) is pending
    rafLoop,            \* number of pending frame requests made by runDetection itself
    inflight,           \* number of estimateHands calls awaiting their result
    now,                \* last value read from the wall clock (ms)
    lastDetectionTime,  \* lastDetectionTime.current
    ratioHistory,       \* ratioHistory.current
    posHistory,         \* posHistory.current
    isCurrentlyOpen,    \* isCurrentlyOpen.current
    missedFrames,       \* missedFrames.current
    debugState,         \* debugState (label shown in the overlay)
    readyState,         \* video.readyState as read by the latest frame notification
    endedFive,          \* history: the latest observation ended a run of exactly 5 misses
    pushes,             \* history: samples pushed since the buffers were last empty
    lastHand,           \* history: latest hand observed since the buffers were last empty, or <<>>
    constRun,           \* history: latest observations in a row that returned lastHand
    lossDiscarded,      \* history: a confirmed loss has discarded buffered samples
    prevEmitTime,       \* history: clock value at the onGesture call of the latest processed
                        \*          tick, -1 if that tick made none
    closeEmit,          \* history: the latest processed tick called onGesture less than 60 ms
                        \*          after the call made by the processed tick before it
    event,              \* history: outcome of the step just taken
    signal,             \* history: signals passed to onGesture by the step just taken
    missRun,            \* history: zero-candidate results since the last observation
    prevInvokeTime      \* history: clock value at the previous estimateHands call, -1 if none

vars == <<modelState, mounted, rafEffect, rafLoop, inflight, now, lastDetectionTime,
          ratioHistory, posHistory, isCurrentlyOpen, missedFrames, debugState,
          readyState, endedFive, pushes, lastHand, constRun, lossDiscarded,
          prevEmitTime, closeEmit, event, signal, missRun, prevInvokeTime>>

smoothing == <<ratioHistory, posHistory, isCurrentlyOpen, missedFrames>>

----------------------------------------------------------------------------
(* Bounds of the model *)

StartTime == 60            \* first clock reading (any value >= 60: Date.now() is epoch-based)
MaxTime == 600             \* the clock is not advanced beyond this value
MaxMissed == 7             \* missedFrames is not incremented beyond this value
MaxUnmountTime == 210      \* the component is not torn down after this clock value

FrameDeltas == {30, 60}    \* time between two steps when a frame request fires
Latencies == {0, 60}       \* time taken by one estimateHands call
ReadyStates == {2, 4}      \* HAVE_CURRENT_DATA, HAVE_ENOUGH_DATA

----------------------------------------------------------------------------
(* Program constants *)

DetectionInterval == 60    \* now - lastDetectionTime.current < 60
PosWindow == 8             \* posHistory.current.length > 8
RatioWindow == 5           \* ratioHistory.current.length > 5
MissLimit == 5             \* missedFrames.current > 5
VideoWidth == 10           \* video.videoWidth of the modelled frame source
VideoHeight == 10          \* video.videoHeight of the modelled frame source

----------------------------------------------------------------------------
(* Exact rational arithmetic standing for the double arithmetic of the code *)

RECURSIVE GCD(_, _)
GCD(a, b) == IF b = 0 THEN a ELSE GCD(b, a % b)

Abs(n) == IF n < 0 THEN -n ELSE n

Rat(n, d) ==
    LET g == GCD(Abs(n), Abs(d))
        s == IF d < 0 THEN -1 ELSE 1
    IN  [num |-> (s * n) \div g, den |-> (s * d) \div g]

RInt(n) == [num |-> n, den |-> 1]
RAdd(a, b) == Rat(a.num * b.den + b.num * a.den, a.den * b.den)
RSub(a, b) == Rat(a.num * b.den - b.num * a.den, a.den * b.den)
RMul(a, b) == Rat(a.num * b.num, a.den * b.den)
RDiv(a, b) == Rat(a.num * b.den, a.den * b.num)
RLess(a, b) == a.num * b.den < b.num * a.den
RGreater(a, b) == RLess(b, a)

OpenThreshold == Rat(16, 10)     \* smoothedRatio > 1.6
CloseThreshold == Rat(12, 10)    \* smoothedRatio < 1.2

\* Math.sqrt, exact on the perfect squares the modelled hands produce
Sqrt(n) == CHOOSE r \in 0..n : r * r = n

----------------------------------------------------------------------------
(* Hands returned by the pose-estimation model: 21 landmarks [x, y] in     *)
(* pixels, landmarks[0] being the wrist (index i of the code is i+1 here). *)

MkHand(wrist, base, tip) ==
    [i \in 1..21 |->
        IF i = 1 THEN wrist
        ELSE IF i \in {6, 10, 14, 18} THEN <<wrist[1] + base[1], wrist[2] + base[2]>>
        ELSE IF i \in {9, 13, 17, 21} THEN <<wrist[1] + tip[1], wrist[2] + tip[2]>>
        ELSE wrist]

OpenHand == MkHand(<<0, 10>>, <<3, 4>>, <<6, 8>>)     \* tips twice as far as the bases
Fist == MkHand(<<10, 5>>, <<3, 4>>, <<4, 3>>)         \* tips as far as the bases

Hands == {OpenHand, Fist}

\* results of estimateHands: a list of candidates, or a rejection
Predictions == {<<>>, <<OpenHand>>, <<Fist>>, <<OpenHand, Fist>>, <<Fist, OpenHand>>}
Results ==
    {[rejected |-> FALSE, predictions |-> p] : p \in Predictions}
        \cup {[rejected |-> TRUE, predictions |-> <<>>]}

----------------------------------------------------------------------------
(* Pure computations of the continuation *)

tips == <<8, 12, 16, 20>>
bases == <<5, 9, 13, 17>>

getDist(p1, p2) ==
    Sqrt((p1[1] - p2[1]) * (p1[1] - p2[1]) + (p1[2] - p2[2]) * (p1[2] - p2[2]))

\* rawX / rawY: -1 * ((wrist / size) * 2 - 1)
RawPos(hand) ==
    LET wrist == hand[1]
    IN  [x |-> RMul(RInt(-1), RSub(RMul(Rat(wrist[1], VideoWidth), RInt(2)), RInt(1))),
         y |-> RMul(RInt(-1), RSub(RMul(Rat(wrist[2], VideoHeight), RInt(2)), RInt(1)))]

RECURSIVE SumDist(_, _, _)
SumDist(hand, idx, i) ==
    IF i = 0 THEN 0
    ELSE SumDist(hand, idx, i - 1) + getDist(hand[1], hand[idx[i] + 1])

\* variant: the divisor is max(avgBaseDist, 1)
RawRatioMax(hand) ==
    LET avgBaseDist == Rat(SumDist(hand, bases, 4), 4)
        avgTipDist == Rat(SumDist(hand, tips, 4), 4)
    IN  RDiv(avgTipDist, IF RLess(avgBaseDist, RInt(1)) THEN RInt(1) ELSE avgBaseDist)

\* rawRatio: avgTipDist / (avgBaseDist || 1)
RawRatio(hand) ==
    LET avgBaseDist == Rat(SumDist(hand, bases, 4), 4)
        avgTipDist == Rat(SumDist(hand, tips, 4), 4)
    IN  RDiv(avgTipDist, IF avgBaseDist.num = 0 THEN RInt(1) ELSE avgBaseDist)

\* variant: pop instead of shift, the newest sample is dropped
PushBoundedDropNewest(hist, sample, window) ==
    LET pushed == Append(hist, sample)
    IN  IF Len(pushed) > window THEN SubSeq(pushed, 1, window) ELSE pushed

\* variant: the shift happens one sample late
PushBoundedLate(hist, sample, window) ==
    LET pushed == Append(hist, sample)
    IN  IF Len(pushed) > window + 1 THEN Tail(pushed) ELSE pushed

\* push followed by a shift when the length exceeds the window
PushBounded(hist, sample, window) ==
    LET pushed == Append(hist, sample)
    IN  IF Len(pushed) > window THEN Tail(pushed) ELSE pushed

RECURSIVE SumRat(_)
SumRat(hist) == IF hist = <<>> THEN RInt(0) ELSE RAdd(hist[1], SumRat(Tail(hist)))

\* variant: the sum is divided by the window instead of the length
MeanByWindow(hist) == RDiv(SumRat(hist), RInt(RatioWindow))

\* reduce((a, b) => a + b, 0) / length
Mean(hist) == RDiv(SumRat(hist), RInt(Len(hist)))

\* variant: the sums are divided by the window instead of the count
MeanPosByWindow(hist) ==
    [x |-> RDiv(SumRat([i \in 1..Len(hist) |-> hist[i].x]), RInt(PosWindow)),
     y |-> RDiv(SumRat([i \in 1..Len(hist) |-> hist[i].y]), RInt(PosWindow))]

\* reduce over {x, y} followed by the division by count
MeanPos(hist) ==
    [x |-> Mean([i \in 1..Len(hist) |-> hist[i].x]),
     y |-> Mean([i \in 1..Len(hist) |-> hist[i].y])]

\* variant: the open threshold is inclusive
HysteresisInclusive(open, smoothedRatio) ==
    IF ~open /\ ~RLess(smoothedRatio, OpenThreshold) THEN TRUE
    ELSE IF open /\ RLess(smoothedRatio, CloseThreshold) THEN FALSE
    ELSE open

\* B. Hysteresis (The State Lock)
Hysteresis(open, smoothedRatio) ==
    IF ~open /\ RGreater(smoothedRatio, OpenThreshold) THEN TRUE
    ELSE IF open /\ RLess(smoothedRatio, CloseThreshold) THEN FALSE
    ELSE open

\* Number.prototype.toFixed(1) of a non-negative rational, in tenths
ToFixed1(r) == (20 * r.num + r.den) \div (2 * r.den)

\* variant: loss is declared one miss early
HandLostEarly(missed) == missed >= MissLimit

\* variant: loss is declared on the crossing tick only
HandLostOnce(missed) == missed = MissLimit + 1

\* missedFrames.current > 5
HandLost(missed) == missed > MissLimit

\* variant: the operands of the subtraction are swapped
ThrottledReversed(t, last) == last - t < DetectionInterval

\* variant: the throttle interval is halved
ThrottledHalf(t, last) == 2 * (t - last) < DetectionInterval

\* now - lastDetectionTime.current < 60
Throttled(t, last) == t - last < DetectionInterval

\* variant: the readyState test is dropped
FrameReadyAnyState(isMounted, rs) == isMounted

\* model && webcamRef.current && video && video.readyState === 4
FrameReady(isMounted, rs) == isMounted /\ rs = 4

LostSignal == [isOpen |-> FALSE, position |-> [x |-> RInt(0), y |-> RInt(0)], isDetected |-> FALSE]

----------------------------------------------------------------------------
(* State machine *)

Init ==
    /\ modelState = "loading"
    /\ mounted = TRUE
    /\ rafEffect = FALSE
    /\ rafLoop = 0
    /\ inflight = 0
    /\ now = StartTime
    /\ lastDetectionTime = 0
    /\ ratioHistory = <<>>
    /\ posHistory = <<>>
    /\ isCurrentlyOpen = FALSE
    /\ missedFrames = 0
    /\ debugState = <<"-">>
    /\ readyState = 0
    /\ endedFive = FALSE
    /\ pushes = 0
    /\ lastHand = <<>>
    /\ constRun = 0
    /\ lossDiscarded = FALSE
    /\ prevEmitTime = -1
    /\ closeEmit = FALSE
    /\ event = "init"
    /\ signal = <<>>
    /\ missRun = 0
    /\ prevInvokeTime = -1

\* loadModel succeeds: setModel(net), setLoading(false); the loop effect then
\* runs (model && !loading) and requests the first frame, if still mounted
LoadModelOk ==
    /\ modelState = "loading"
    /\ modelState' = "ready"
    /\ rafEffect' = mounted
    /\ event' = "loaded"
    /\ signal' = <<>>
    /\ UNCHANGED <<mounted, rafLoop, inflight, now, lastDetectionTime, smoothing,
                   debugState, readyState, endedFive, pushes, lastHand, constRun, lossDiscarded,
                   prevEmitTime, closeEmit, missRun, prevInvokeTime>>

\* loadModel fails: only setLoading(false); model stays null, no loop
LoadModelFail ==
    /\ modelState = "loading"
    /\ modelState' = "failed"
    /\ event' = "loadFailed"
    /\ signal' = <<>>
    /\ UNCHANGED <<mounted, rafEffect, rafLoop, inflight, now, lastDetectionTime,
                   smoothing, debugState, readyState, endedFive, pushes, lastHand, constRun, lossDiscarded,
                   prevEmitTime, closeEmit, missRun, prevInvokeTime>>

\* component teardown: the effect cleanup cancels `timer`, the refs are detached
Unmount ==
    /\ mounted
    /\ now <= MaxUnmountTime
    /\ mounted' = FALSE
    /\ rafEffect' = FALSE
    /\ event' = "unmount"
    /\ signal' = <<>>
    /\ UNCHANGED <<modelState, rafLoop, inflight, now, lastDetectionTime, smoothing,
                   debugState, readyState, endedFive, pushes, lastHand, constRun, lossDiscarded,
                   prevEmitTime, closeEmit, missRun, prevInvokeTime>>

\* variant: the next frame is requested before the await as well
ReschedulesAlways(outcome) == 1

\* variant: the throttled return forgets to request the next frame
ReschedulesNotThrottled(outcome) == IF outcome = "notReady" THEN 1 ELSE 0

\* frame requests made by the synchronous part of runDetection, per outcome
Reschedules(outcome) == IF outcome = "invoked" THEN 0 ELSE 1

\* synchronous part of runDetection, up to the await or the return;
\* pending is the number of loop requests left once the firing one is removed
RunDetectionUntil(dt, rs, pending, horizon) ==
    LET t == now + dt
        outcome == IF ~FrameReady(mounted, rs) THEN "notReady"
                   ELSE IF Throttled(t, lastDetectionTime) THEN "throttled"
                   ELSE "invoked"
    IN  /\ t <= horizon
        /\ now' = t
        /\ readyState' = (IF mounted THEN rs ELSE readyState)
        /\ event' = outcome
        /\ signal' = <<>>
        /\ rafLoop' = pending + Reschedules(outcome)
        /\ IF outcome = "invoked"
             THEN /\ lastDetectionTime' = t
                  /\ inflight' = inflight + 1
                  /\ prevInvokeTime' = t
             ELSE UNCHANGED <<lastDetectionTime, inflight, prevInvokeTime>>
        /\ UNCHANGED <<modelState, mounted, smoothing, debugState, endedFive, pushes,
                       lastHand, constRun, lossDiscarded, prevEmitTime, closeEmit, missRun>>

RunDetection(dt, rs, pending) == RunDetectionUntil(dt, rs, pending, MaxTime)

\* the frame requested by the effect fires
FrameFromEffect ==
    /\ rafEffect
    /\ rafEffect' = FALSE
    /\ \E dt \in FrameDeltas, rs \in ReadyStates : RunDetection(dt, rs, rafLoop)

\* a frame requested by runDetection fires
FrameFromLoop ==
    /\ rafLoop > 0
    /\ UNCHANGED rafEffect
    /\ \E dt \in FrameDeltas, rs \in ReadyStates : RunDetection(dt, rs, rafLoop - 1)

\* variant: the miss counter is not reset by an observation
HandFoundNoReset(hand) ==
    LET ph == PushBounded(posHistory, RawPos(hand), PosWindow)
        rh == PushBounded(ratioHistory, RawRatio(hand), RatioWindow)
        smoothedRatio == Mean(rh)
        isOpen == Hysteresis(isCurrentlyOpen, smoothedRatio)
    IN  /\ missedFrames' = missedFrames
        /\ posHistory' = ph
        /\ ratioHistory' = rh
        /\ isCurrentlyOpen' = isOpen
        /\ debugState' = <<IF isOpen THEN "OPEN" ELSE "CLOSED", ToFixed1(smoothedRatio)>>
        /\ signal' = <<[isOpen |-> isOpen, position |-> MeanPos(ph), isDetected |-> TRUE]>>
        /\ event' = "hand"
        /\ endedFive' = (missRun = 5)
        /\ pushes' = pushes + 1
        /\ lastHand' = hand
        /\ constRun' = (IF hand = lastHand THEN constRun + 1 ELSE 1)
        /\ UNCHANGED lossDiscarded
        /\ prevEmitTime' = now'
        /\ closeEmit' = (prevEmitTime # -1 /\ now' - prevEmitTime < DetectionInterval)
        /\ missRun' = 0

\* continuation: predictions.length > 0
HandFound(hand) ==
    LET ph == PushBounded(posHistory, RawPos(hand), PosWindow)
        rh == PushBounded(ratioHistory, RawRatio(hand), RatioWindow)
        smoothedRatio == Mean(rh)
        isOpen == Hysteresis(isCurrentlyOpen, smoothedRatio)
    IN  /\ missedFrames' = 0
        /\ posHistory' = ph
        /\ ratioHistory' = rh
        /\ isCurrentlyOpen' = isOpen
        /\ debugState' = <<IF isOpen THEN "OPEN" ELSE "CLOSED", ToFixed1(smoothedRatio)>>
        /\ signal' = <<[isOpen |-> isOpen, position |-> MeanPos(ph), isDetected |-> TRUE]>>
        /\ event' = "hand"
        /\ endedFive' = (missRun = 5)
        /\ pushes' = pushes + 1
        /\ lastHand' = hand
        /\ constRun' = (IF hand = lastHand THEN constRun + 1 ELSE 1)
        /\ UNCHANGED lossDiscarded
        /\ prevEmitTime' = now'
        /\ closeEmit' = (prevEmitTime # -1 /\ now' - prevEmitTime < DetectionInterval)
        /\ missRun' = 0

\* variant: the lost signal is emitted on every miss
HandMissingAlwaysEmits ==
    /\ missedFrames < MaxMissed
    /\ missedFrames' = missedFrames + 1
    /\ event' = "none"
    /\ missRun' = missRun + 1
    /\ UNCHANGED endedFive
    /\ IF HandLost(missedFrames + 1)
         THEN /\ isCurrentlyOpen' = FALSE
              /\ pushes' = 0
              /\ lastHand' = <<>>
              /\ constRun' = 0
              /\ lossDiscarded' = (lossDiscarded \/ pushes > 0)
              /\ ratioHistory' = <<>>
              /\ posHistory' = <<>>
              /\ debugState' = <<"NO HAND">>
              /\ signal' = <<LostSignal>>
              /\ prevEmitTime' = now'
              /\ closeEmit' = (prevEmitTime # -1 /\ now' - prevEmitTime < DetectionInterval)
         ELSE /\ UNCHANGED <<isCurrentlyOpen, ratioHistory, posHistory, debugState, pushes,
                             lastHand, constRun, lossDiscarded>>
              /\ signal' = <<LostSignal>>
              /\ prevEmitTime' = now'
              /\ closeEmit' = (prevEmitTime # -1 /\ now' - prevEmitTime < DetectionInterval)

\* variant: the miss counter is reset when loss is declared
HandMissingResets ==
    /\ missedFrames < MaxMissed
    /\ missedFrames' = (IF HandLost(missedFrames + 1) THEN 0 ELSE missedFrames + 1)
    /\ event' = "none"
    /\ missRun' = missRun + 1
    /\ UNCHANGED endedFive
    /\ IF HandLost(missedFrames + 1)
         THEN /\ isCurrentlyOpen' = FALSE
              /\ pushes' = 0
              /\ lastHand' = <<>>
              /\ constRun' = 0
              /\ lossDiscarded' = (lossDiscarded \/ pushes > 0)
              /\ ratioHistory' = <<>>
              /\ posHistory' = <<>>
              /\ debugState' = <<"NO HAND">>
              /\ signal' = <<LostSignal>>
              /\ prevEmitTime' = now'
              /\ closeEmit' = (prevEmitTime # -1 /\ now' - prevEmitTime < DetectionInterval)
         ELSE /\ UNCHANGED <<isCurrentlyOpen, ratioHistory, posHistory, debugState, pushes,
                             lastHand, constRun, lossDiscarded>>
              /\ signal' = <<>>
              /\ prevEmitTime' = -1
              /\ closeEmit' = FALSE

\* variant: the lost branch leaves isCurrentlyOpen as it is
HandMissingKeepsOpen ==
    /\ missedFrames < MaxMissed
    /\ missedFrames' = missedFrames + 1
    /\ event' = "none"
    /\ missRun' = missRun + 1
    /\ UNCHANGED endedFive
    /\ IF HandLost(missedFrames + 1)
         THEN /\ UNCHANGED isCurrentlyOpen
              /\ pushes' = 0
              /\ lastHand' = <<>>
              /\ constRun' = 0
              /\ lossDiscarded' = (lossDiscarded \/ pushes > 0)
              /\ ratioHistory' = <<>>
              /\ posHistory' = <<>>
              /\ debugState' = <<"NO HAND">>
              /\ signal' = <<LostSignal>>
              /\ prevEmitTime' = now'
              /\ closeEmit' = (prevEmitTime # -1 /\ now' - prevEmitTime < DetectionInterval)
         ELSE /\ UNCHANGED <<isCurrentlyOpen, ratioHistory, posHistory, debugState, pushes,
                             lastHand, constRun, lossDiscarded>>
              /\ signal' = <<>>
              /\ prevEmitTime' = -1
              /\ closeEmit' = FALSE

\* variant: the lost branch does not empty ratioHistory
HandMissingKeepsRatios ==
    /\ missedFrames < MaxMissed
    /\ missedFrames' = missedFrames + 1
    /\ event' = "none"
    /\ missRun' = missRun + 1
    /\ UNCHANGED endedFive
    /\ IF HandLost(missedFrames + 1)
         THEN /\ isCurrentlyOpen' = FALSE
              /\ pushes' = 0
              /\ lastHand' = <<>>
              /\ constRun' = 0
              /\ lossDiscarded' = (lossDiscarded \/ pushes > 0)
              /\ UNCHANGED ratioHistory
              /\ posHistory' = <<>>
              /\ debugState' = <<"NO HAND">>
              /\ signal' = <<LostSignal>>
              /\ prevEmitTime' = now'
              /\ closeEmit' = (prevEmitTime # -1 /\ now' - prevEmitTime < DetectionInterval)
         ELSE /\ UNCHANGED <<isCurrentlyOpen, ratioHistory, posHistory, debugState, pushes,
                             lastHand, constRun, lossDiscarded>>
              /\ signal' = <<>>
              /\ prevEmitTime' = -1
              /\ closeEmit' = FALSE

\* continuation: predictions.length = 0
HandMissing ==
    /\ missedFrames < MaxMissed
    /\ missedFrames' = missedFrames + 1
    /\ event' = "none"
    /\ missRun' = missRun + 1
    /\ UNCHANGED endedFive
    /\ IF HandLost(missedFrames + 1)
         THEN /\ isCurrentlyOpen' = FALSE
              /\ pushes' = 0
              /\ lastHand' = <<>>
              /\ constRun' = 0
              /\ lossDiscarded' = (lossDiscarded \/ pushes > 0)
              /\ ratioHistory' = <<>>
              /\ posHistory' = <<>>
              /\ debugState' = <<"NO HAND">>
              /\ signal' = <<LostSignal>>
              /\ prevEmitTime' = now'
              /\ closeEmit' = (prevEmitTime # -1 /\ now' - prevEmitTime < DetectionInterval)
         ELSE /\ UNCHANGED <<isCurrentlyOpen, ratioHistory, posHistory, debugState, pushes,
                             lastHand, constRun, lossDiscarded>>
              /\ signal' = <<>>
              /\ prevEmitTime' = -1
              /\ closeEmit' = FALSE

\* variant: a rejected call is counted as a missed frame
EstimateFailedCounted ==
    /\ missedFrames < MaxMissed
    /\ missedFrames' = missedFrames + 1
    /\ event' = "error"
    /\ signal' = <<>>
    /\ prevEmitTime' = -1
    /\ closeEmit' = FALSE
    /\ UNCHANGED <<ratioHistory, posHistory, isCurrentlyOpen, debugState, endedFive, pushes,
                   lastHand, constRun, lossDiscarded, missRun>>

\* continuation: estimateHands rejected, the catch block swallows it
EstimateFailed ==
    /\ event' = "error"
    /\ signal' = <<>>
    /\ prevEmitTime' = -1
    /\ closeEmit' = FALSE
    /\ UNCHANGED <<smoothing, debugState, endedFive, pushes, lastHand, constRun, lossDiscarded, missRun>>

\* the pending estimateHands call settles; the continuation runs to the
\* requestAnimationFrame at the end of runDetection
EstimateResolveIn(latencies, results, horizon) ==
    /\ inflight > 0
    /\ \E dt \in latencies, result \in results :
         /\ now + dt <= horizon
         /\ now' = now + dt
         /\ IF result.rejected THEN EstimateFailed
            ELSE IF Len(result.predictions) > 0 THEN HandFound(result.predictions[1])
            ELSE HandMissing
    /\ inflight' = inflight - 1
    /\ rafLoop' = rafLoop + 1
    /\ UNCHANGED <<modelState, mounted, rafEffect, lastDetectionTime, readyState,
                   prevInvokeTime>>

EstimateResolve == EstimateResolveIn(Latencies, Results, MaxTime)

Next ==
    \/ LoadModelOk
    \/ LoadModelFail
    \/ Unmount
    \/ FrameFromEffect
    \/ FrameFromLoop
    \/ EstimateResolve

Spec == Init /\ [][Next]_vars

----------------------------------------------------------------------------
(* The loop fed with observations whose ratio is 1.5 or 1.3 *)

ScenarioTime == 330        \* the clock is not advanced beyond this value

HalfOpenHand == MkHand(<<0, 0>>, <<6, 8>>, <<9, 12>>)     \* tips 15, bases 10
SlackHand == MkHand(<<5, 5>>, <<6, 8>>, <<5, 12>>)        \* tips 13, bases 10

ScenarioResults ==
    {[rejected |-> FALSE, predictions |-> p] : p \in {<<>>, <<HalfOpenHand>>, <<SlackHand>>}}

ScenarioFrameFromEffect ==
    /\ rafEffect
    /\ rafEffect' = FALSE
    /\ \E dt \in FrameDeltas, rs \in ReadyStates :
         RunDetectionUntil(dt, rs, rafLoop, ScenarioTime)

ScenarioFrameFromLoop ==
    /\ rafLoop > 0
    /\ UNCHANGED rafEffect
    /\ \E dt \in FrameDeltas, rs \in ReadyStates :
         RunDetectionUntil(dt, rs, rafLoop - 1, ScenarioTime)

ScenarioResolve == EstimateResolveIn(Latencies, ScenarioResults, ScenarioTime)

NextScenario ==
    \/ LoadModelOk
    \/ ScenarioFrameFromEffect
    \/ ScenarioFrameFromLoop
    \/ ScenarioResolve

SpecScenario == Init /\ [][NextScenario]_vars

----------------------------------------------------------------------------
(* The loop in an environment that, once the clock has passed QuietFrom,    *)
(* keeps the video ready and returns no candidate.  The browser runs every  *)
(* requested frame callback and every estimateHands promise settles, hence  *)
(* the weak fairness of the steps.                                          *)

QuietFrom == 210           \* clock value from which the environment is quiet
LossHorizon == 1080        \* the clock is not advanced beyond this value

LossReadyStates(t) == IF t > QuietFrom THEN {4} ELSE ReadyStates

LossResults(t) ==
    IF t >= QuietFrom THEN {[rejected |-> FALSE, predictions |-> <<>>]} ELSE Results

LossFrameFromEffect ==
    /\ rafEffect
    /\ rafEffect' = FALSE
    /\ \E dt \in FrameDeltas : \E rs \in LossReadyStates(now + dt) :
         RunDetectionUntil(dt, rs, rafLoop, LossHorizon)

LossFrameFromLoop ==
    /\ rafLoop > 0
    /\ UNCHANGED rafEffect
    /\ \E dt \in FrameDeltas : \E rs \in LossReadyStates(now + dt) :
         RunDetectionUntil(dt, rs, rafLoop - 1, LossHorizon)

LossResolve == EstimateResolveIn(Latencies, LossResults(now), LossHorizon)

NextLoss ==
    \/ LoadModelOk
    \/ LossFrameFromEffect
    \/ LossFrameFromLoop
    \/ LossResolve

SpecLoss ==
    /\ Init
    /\ [][NextLoss]_vars
    /\ WF_vars(LoadModelOk)
    /\ WF_vars(LossFrameFromEffect)
    /\ WF_vars(LossFrameFromLoop)
    /\ WF_vars(LossResolve)

----------------------------------------------------------------------------
(* The loop fed with hands of varied geometry, degenerate ones included *)

RatioTime == 240           \* the clock is not advanced beyond this value

\* a hand whose four fingers have their own base and tip offsets from the wrist
MkFingers(wrist, baseOffs, tipOffs) ==
    [i \in 1..21 |->
        IF i \in {6, 10, 14, 18}
          THEN <<wrist[1] + baseOffs[(i - 2) \div 4][1], wrist[2] + baseOffs[(i - 2) \div 4][2]>>
        ELSE IF i \in {9, 13, 17, 21}
          THEN <<wrist[1] + tipOffs[(i - 5) \div 4][1], wrist[2] + tipOffs[(i - 5) \div 4][2]>>
        ELSE wrist]

\* every landmark on the wrist
PointHand ==
    MkFingers(<<5, 5>>, <<<<0, 0>>, <<0, 0>>, <<0, 0>>, <<0, 0>>>>,
                        <<<<0, 0>>, <<0, 0>>, <<0, 0>>, <<0, 0>>>>)
\* base joints on the wrist, tips at distance 5
ZeroBaseHand ==
    MkFingers(<<5, 5>>, <<<<0, 0>>, <<0, 0>>, <<0, 0>>, <<0, 0>>>>,
                        <<<<3, 4>>, <<3, 4>>, <<3, 4>>, <<3, 4>>>>)
\* one base joint at distance 1, the others on the wrist, tips at distance 5
QuarterBaseHand ==
    MkFingers(<<5, 5>>, <<<<0, 1>>, <<0, 0>>, <<0, 0>>, <<0, 0>>>>,
                        <<<<3, 4>>, <<3, 4>>, <<3, 4>>, <<3, 4>>>>)
\* bases at distances 5, 10, 5, 5 and tips at distances 10, 15, 13, 10
UnevenHand ==
    MkFingers(<<0, 0>>, <<<<3, 4>>, <<6, 8>>, <<4, 3>>, <<0, 5>>>>,
                        <<<<6, 8>>, <<9, 12>>, <<5, 12>>, <<8, 6>>>>)

GeometryHands == {PointHand, ZeroBaseHand, QuarterBaseHand, UnevenHand, OpenHand, Fist}

GeometryResults ==
    {[rejected |-> FALSE, predictions |-> <<h>>] : h \in GeometryHands}
        \cup {[rejected |-> FALSE, predictions |-> <<>>]}

RatioFrameFromEffect ==
    /\ rafEffect
    /\ rafEffect' = FALSE
    /\ \E dt \in FrameDeltas, rs \in ReadyStates :
         RunDetectionUntil(dt, rs, rafLoop, RatioTime)

RatioFrameFromLoop ==
    /\ rafLoop > 0
    /\ UNCHANGED rafEffect
    /\ \E dt \in FrameDeltas, rs \in ReadyStates :
         RunDetectionUntil(dt, rs, rafLoop - 1, RatioTime)

RatioResolve == EstimateResolveIn(Latencies, GeometryResults, RatioTime)

NextRatio ==
    \/ LoadModelOk
    \/ RatioFrameFromEffect
    \/ RatioFrameFromLoop
    \/ RatioResolve

SpecRatio == Init /\ [][NextRatio]_vars

----------------------------------------------------------------------------
TypeOK ==
    /\ modelState \in {"loading", "ready", "failed"}
    /\ mounted \in BOOLEAN
    /\ rafEffect \in BOOLEAN
    /\ rafLoop \in Nat
    /\ inflight \in Nat
    /\ now \in StartTime..MaxTime
    /\ lastDetectionTime \in 0..MaxTime
    /\ Len(ratioHistory) <= RatioWindow
    /\ Len(posHistory) <= PosWindow
    /\ isCurrentlyOpen \in BOOLEAN
    /\ missedFrames \in 0..MaxMissed
    /\ Len(signal) <= 1

----------------------------------------------------------------------------
(* Properties *)

FrameOutcomes == {"notReady", "throttled", "invoked"}
TickOutcomes == {"notReady", "throttled", "hand", "none", "error"}

\* C1: debounce tolerance.  A miss that brings the run of consecutive misses
\* to 5 or fewer leaves both history buffers and isOpen as they were, and the
\* observation that ends a run of exactly 5 misses appends to the buffers it
\* found and derives isOpen from the value it found; a miss that brings the
\* run to 6 or more leaves both buffers empty and isOpen false.
C1_DebounceTolerance ==
    [][ /\ (event' = "none" /\ missRun' <= 5) =>
              UNCHANGED <<posHistory, ratioHistory, isCurrentlyOpen>>
        /\ (event' = "hand" /\ missRun = 5) =>
              /\ Len(posHistory') = (IF Len(posHistory) = 8 THEN 8 ELSE Len(posHistory) + 1)
              /\ Len(ratioHistory') = (IF Len(ratioHistory) = 5 THEN 5 ELSE Len(ratioHistory) + 1)
              /\ \A i \in 1..(Len(posHistory') - 1) :
                     posHistory'[i] = posHistory[i + Len(posHistory) + 1 - Len(posHistory')]
              /\ \A i \in 1..(Len(ratioHistory') - 1) :
                     ratioHistory'[i] = ratioHistory[i + Len(ratioHistory) + 1 - Len(ratioHistory')]
              /\ (isCurrentlyOpen /\ ~RLess(Mean(ratioHistory'), Rat(12, 10))) => isCurrentlyOpen'
        /\ (event' = "none" /\ missRun' >= 6) =>
              (posHistory' = <<>> /\ ratioHistory' = <<>> /\ ~isCurrentlyOpen')
      ]_vars

\* C1 witness: an observation has just ended a run of exactly 5 misses, the
\* buffers still hold the samples from before the run and isOpen is still true.
C1_Witness ==
    event = "hand" /\ endedFive /\ Len(posHistory) >= 3 /\ Len(ratioHistory) >= 3
        /\ isCurrentlyOpen

\* C2 (as stated): in a run of misses the lost signal is emitted on the 6th
\* miss and on no other miss of the run.
C2_EmittedOnceAtSixth ==
    [][ event' = "none" => (signal' = <<LostSignal>> <=> missRun' = 6) ]_vars

\* C2 (amended): in a run of misses the lost signal is emitted on the 6th miss
\* and again on every later miss of the run, and on no miss before the 6th.
C2_EmittedFromSixthOn ==
    [][ event' = "none" =>
            /\ (missRun' >= 6 => signal' = <<LostSignal>>)
            /\ (missRun' <= 5 => signal' = <<>>) ]_vars

\* C2 witness: the 7th miss of a run has just emitted the lost signal.
C2_Witness == event = "none" /\ missRun = 7 /\ signal = <<LostSignal>>

\* C3: hysteresis gate.  The gate starts closed; on a tick with an observation
\* isOpen goes from false to true iff the smoothed ratio is above 1.6, from
\* true to false iff it is below 1.2, and keeps its value otherwise.
C3_HysteresisGate ==
    [][ /\ event = "init" => ~isCurrentlyOpen
        /\ event' = "hand" =>
              LET smoothed == Mean(ratioHistory')
                  above == smoothed.num * 10 > 16 * smoothed.den
                  below == smoothed.num * 10 < 12 * smoothed.den
              IN  /\ (~isCurrentlyOpen /\ isCurrentlyOpen') <=> (~isCurrentlyOpen /\ above)
                  /\ (isCurrentlyOpen /\ ~isCurrentlyOpen') <=> (isCurrentlyOpen /\ below)
      ]_vars

\* C3 witness: an observation whose smoothed ratio is exactly 1.6 has left the
\* gate closed.
C3_Witness ==
    event = "hand" /\ ~isCurrentlyOpen /\ Len(ratioHistory) = 5
        /\ Mean(ratioHistory) = Rat(8, 5)

\* C4: throttle.  Two consecutive estimateHands calls start at least 60 ms
\* apart, and a frame notification read less than 60 ms after
\* lastDetectionTime makes no call, keeps lastDetectionTime and requests the
\* next frame.
C4_Throttle ==
    [][ /\ (event' = "invoked" /\ prevInvokeTime' # prevInvokeTime /\ prevInvokeTime # -1) =>
              prevInvokeTime' - prevInvokeTime >= 60
        /\ (event' \in FrameOutcomes /\ now' # now /\ now' - lastDetectionTime < 60) =>
              /\ inflight' = inflight
              /\ lastDetectionTime' = lastDetectionTime
              /\ rafLoop' >= 1
      ]_vars

\* C4 witness: a frame notification with a ready frame arrived 30 ms after the
\* previous call and was throttled.
C4_Witness ==
    event = "throttled" /\ prevInvokeTime # -1 /\ now - prevInvokeTime = 30
        /\ lastDetectionTime = prevInvokeTime

\* C5: at most one estimateHands call is outstanding, and while it is
\* outstanding no frame request is pending.
C5_SingleInFlight ==
    /\ inflight <= 1
    /\ inflight = 1 => (~rafEffect /\ rafLoop = 0)
    /\ rafLoop <= 1
    /\ rafEffect => rafLoop = 0

\* C5 witness: a call is outstanding on a tick later than the first one.
C5_Witness == inflight = 1 /\ event = "invoked" /\ Len(posHistory) >= 2 /\ missedFrames >= 1

\* C6 (as stated): once the component is torn down no frame is requested any
\* more, no smoothing state changes and the gesture callback is not invoked.
C6_Cancellation ==
    [][ ~mounted =>
            /\ UNCHANGED smoothing
            /\ signal' = <<>>
            /\ rafLoop' <= rafLoop
            /\ (now' # now /\ event' \in FrameOutcomes) => rafLoop' < rafLoop
      ]_vars

\* C7: no tick outcome ends the loop.  Every completed tick (frame not ready,
\* throttled, hand, no hand, rejected call) leaves a frame request pending, a
\* tick that made the call is awaiting it, and once a frame has fired there is
\* always a pending request or an outstanding call.
C7_LoopNeverStalls ==
    /\ event \in TickOutcomes => rafLoop >= 1
    /\ event = "invoked" => inflight >= 1
    /\ now > StartTime => rafLoop + inflight >= 1

\* C7 witness: a tick whose call was rejected has re-armed the loop.
C7_Witness == event = "error" /\ rafLoop = 1 /\ inflight = 0 /\ pushes >= 1

\* C8: a rejected estimateHands call changes neither the miss counter, isOpen
\* nor the history buffers and emits no signal.
C8_FailureSwallowed ==
    [][ event' = "error" => (UNCHANGED smoothing /\ signal' = <<>>) ]_vars

\* C8 witness: a call was rejected after 5 misses with samples in the buffers.
C8_Witness ==
    event = "error" /\ missedFrames = 5 /\ Len(posHistory) >= 1 /\ isCurrentlyOpen

\* C9: a frame notification that finds the frame source not ready makes no
\* call, keeps lastDetectionTime, the miss counter, isOpen and both history
\* buffers, and emits no signal.
C9_FrameNotReady ==
    [][ (event' \in FrameOutcomes /\ ~(mounted /\ readyState' = 4)) =>
            /\ UNCHANGED <<inflight, lastDetectionTime, smoothing>>
            /\ signal' = <<>>
      ]_vars

\* C9 witness: the frame was not ready at a notification that arrived 60 ms
\* or more after the last call, on a mounted component with samples buffered.
C9_Witness ==
    event = "notReady" /\ mounted /\ readyState # 4 /\ inflight = 0
        /\ now - lastDetectionTime >= 60 /\ Len(posHistory) >= 1

\* C10: a tick with an observation emits exactly one signal with isDetected
\* true, isOpen equal to the gate after the update, and position equal to the
\* arithmetic mean of the position history after this tick's raw position was
\* appended and the oldest sample evicted if the buffer was full.
C10_DetectedSignal ==
    [][ event' = "hand" =>
            /\ Len(signal') = 1
            /\ signal'[1].isDetected = TRUE
            /\ signal'[1].isOpen = isCurrentlyOpen'
            /\ \E h \in Hands :
                 LET kept == IF Len(posHistory) = 8 THEN Tail(posHistory) ELSE posHistory
                     after == kept \o <<RawPos(h)>>
                     n == Len(after)
                     sx == SumRat([i \in 1..n |-> after[i].x])
                     sy == SumRat([i \in 1..n |-> after[i].y])
                 IN  /\ posHistory' = after
                     /\ signal'[1].position.x = Rat(sx.num, sx.den * n)
                     /\ signal'[1].position.y = Rat(sy.num, sy.den * n)
      ]_vars

\* C10 witness: the ninth observation in a row has evicted the oldest sample
\* and the emitted position is the mean of a mixed buffer.
C10_Witness ==
    /\ event = "hand"
    /\ Len(posHistory) = 8
    /\ posHistory[8] # posHistory[7]
    /\ pushes = 9
    /\ Len(signal) = 1
    /\ signal[1].position.x = Rat(-1, 2)

\* C11 (as stated): every processed tick, with or without a hand, emits
\* exactly one signal.
C11_OneSignalPerTick ==
    [][ event' \in {"hand", "none"} => Len(signal') = 1 ]_vars

\* C11 (amended): a processed tick emits at most one signal: exactly one when
\* it has an observation or is the 6th or a later miss of a run, and none when
\* it is one of the first 5 misses of a run.
C11_AtMostOneSignalPerTick ==
    [][ event' \in {"hand", "none"} =>
            /\ Len(signal') <= 1
            /\ Len(signal') = 1 <=> (event' = "hand" \/ missRun' >= 6) ]_vars

\* C11 witness: the third miss of a run was processed and emitted nothing
\* while samples were buffered.
C11_Witness == event = "none" /\ missRun = 3 /\ signal = <<>> /\ pushes >= 1

\* C12: the position history never holds more than 8 samples and the ratio
\* history never more than 5; each observation appends its sample at the end,
\* evicting exactly the oldest one from a full buffer, so each buffer holds
\* the latest samples since it was last cleared, in arrival order.
C12_BoundedHistory ==
    [][ /\ Len(posHistory) = (IF pushes < 8 THEN pushes ELSE 8)
        /\ Len(ratioHistory) = (IF pushes < 5 THEN pushes ELSE 5)
        /\ Len(posHistory') = (IF pushes' < 8 THEN pushes' ELSE 8)
        /\ Len(ratioHistory') = (IF pushes' < 5 THEN pushes' ELSE 5)
        /\ event' = "hand" =>
              LET keptPos == IF Len(posHistory) = 8 THEN Tail(posHistory) ELSE posHistory
                  keptRatio == IF Len(ratioHistory) = 5 THEN Tail(ratioHistory)
                               ELSE ratioHistory
              IN  /\ lastHand' \in Hands
                  /\ posHistory' = keptPos \o <<RawPos(lastHand')>>
                  /\ ratioHistory' = keptRatio \o <<RawRatio(lastHand')>>
      ]_vars

\* C12 witness: the ninth observation since the last clear has evicted from
\* both buffers, and the ratio buffer holds different samples.
C12_Witness ==
    event = "hand" /\ pushes = 9 /\ Len(posHistory) = 8 /\ Len(ratioHistory) = 5
        /\ ratioHistory[1] # ratioHistory[5]

\* C13: once the latest 8 observations since the last confirmed loss returned
\* the same hand, the emitted position is that hand's raw position; once the
\* latest 5 did, the smoothed ratio is that hand's raw ratio.
C13_Convergence ==
    /\ (constRun >= 8 /\ event = "hand") =>
          (Len(signal) = 1 /\ signal[1].position = RawPos(lastHand))
    /\ constRun >= 8 => \A i \in 1..Len(posHistory) : posHistory[i] = RawPos(lastHand)
    /\ constRun >= 5 =>
          /\ ratioHistory # <<>>
          /\ LET total == SumRat(ratioHistory)
             IN  Rat(total.num, total.den * Len(ratioHistory)) = RawRatio(lastHand)
          /\ event = "hand" => debugState[2] = ToFixed1(RawRatio(lastHand))

\* C13 witness: the eighth identical observation in a row has just evicted an
\* older, different sample from the position history.
C13_Witness ==
    event = "hand" /\ constRun = 8 /\ pushes = 9 /\ Len(signal) = 1
        /\ signal[1].position = RawPos(lastHand)

\* C15: every tick with an observation sets the miss counter to 0, and the
\* first miss after an observation that ended a run of 5 misses leaves both
\* buffers as they were, still ending with that observation's samples.
C15_CounterReset ==
    [][ /\ event' = "hand" => missedFrames' = 0
        /\ (event' = "none" /\ endedFive /\ missRun = 0) =>
              /\ missedFrames' = 1
              /\ UNCHANGED <<posHistory, ratioHistory>>
              /\ posHistory' # <<>> /\ ratioHistory' # <<>>
              /\ posHistory'[Len(posHistory')] = RawPos(lastHand)
              /\ ratioHistory'[Len(ratioHistory')] = RawRatio(lastHand)
      ]_vars

\* C15 witness: 5 misses, one observation, one more miss: the buffers hold
\* exactly that observation.
C15_Witness ==
    event = "none" /\ endedFive /\ missRun = 1 /\ pushes = 1
        /\ Len(posHistory) = 1 /\ Len(ratioHistory) = 1

\* C16: a miss that leaves the counter at 5 or below only increments the
\* counter: isOpen and both buffers are unchanged and nothing is emitted; a
\* non-empty buffer becomes empty, and isOpen is reset outside the gate
\* update, only on a miss that leaves the counter above 5.
C16_MissBelowThreshold ==
    [][ /\ (event' = "none" /\ missedFrames' <= 5) =>
              /\ missedFrames' = missedFrames + 1
              /\ UNCHANGED <<isCurrentlyOpen, posHistory, ratioHistory>>
              /\ signal' = <<>>
        /\ ((posHistory # <<>> /\ posHistory' = <<>>)
               \/ (ratioHistory # <<>> /\ ratioHistory' = <<>>)
               \/ (isCurrentlyOpen /\ ~isCurrentlyOpen' /\ event' # "hand")) =>
              (event' = "none" /\ missedFrames' > 5)
      ]_vars

\* C16 witness: the fifth miss in a row left an open gate and its samples alone.
C16_Witness ==
    event = "none" /\ missedFrames = 5 /\ isCurrentlyOpen /\ Len(ratioHistory) >= 2
        /\ signal = <<>>

\* C17 (as stated): the miss counter never grows beyond 6.
C17_CounterAtMostSix == missedFrames <= 6

\* C17 (amended): the miss counter is not reset when loss is declared: every
\* miss increments it, also beyond 6, only an observation sets it to 0, and no
\* other step changes it.
C17_CounterKeepsGrowing ==
    [][ /\ event' = "none" => missedFrames' = missedFrames + 1
        /\ event' = "hand" => missedFrames' = 0
        /\ event' \notin {"none", "hand"} => missedFrames' = missedFrames
      ]_vars

\* C17 witness: the counter stands at 7 after the seventh miss of a run.
C17_Witness == event = "none" /\ missedFrames = 7 /\ missRun = 7

\* C19 (as stated): two consecutive onGesture calls are at least 60 ms apart.
C19_CallbackCadence == ~closeEmit

\* C19 (amended): a processed tick calls onGesture at most once, and the call
\* comes strictly later than the call of the processed tick before it (the
\* distance can be less than 60 ms).
C19_CallbackOrder ==
    [][ /\ Len(signal') <= 1
        /\ (Len(signal') = 1 /\ prevEmitTime # -1) => now' > prevEmitTime
      ]_vars

\* C19 witness: an observation was reported less than 60 ms after the report
\* of the tick before it.
C19_Witness == event = "hand" /\ closeEmit /\ Len(signal) = 1 /\ now - prevInvokeTime = 0

----------------------------------------------------------------------------
ScenarioC == <<Rat(15, 10), Rat(13, 10), Rat(15, 10), Rat(13, 10)>>

\* C14: when the buffers, empty at the start with isOpen false, have received
\* the first n <= 4 of the ratios 1.5, 1.3, 1.5, 1.3 and nothing else, the
\* smoothed ratio lies in [1.3, 1.5] (so does the value shown in the label),
\* isOpen is false and the signal of the tick reports isOpen false.
C14_ScenarioC ==
    (/\ ratioHistory # <<>>
     /\ Len(ratioHistory) <= 4
     /\ ratioHistory = SubSeq(ScenarioC, 1, Len(ratioHistory)))
    => LET smoothed == RDiv(SumRat(ratioHistory), RInt(Len(ratioHistory)))
       IN  /\ pushes = Len(ratioHistory)
           /\ ~RLess(smoothed, Rat(13, 10))
           /\ ~RGreater(smoothed, Rat(15, 10))
           /\ debugState \in {<<"CLOSED", t>> : t \in 13..15}
           /\ ~isCurrentlyOpen
           /\ event = "hand" =>
                /\ Len(signal) = 1
                /\ ~signal[1].isOpen
                /\ signal[1].isDetected

C14_Witness ==
    /\ event = "hand"
    /\ ratioHistory = ScenarioC
    /\ pushes = 4
    /\ debugState = <<"CLOSED", 14>>
    /\ ~isCurrentlyOpen

----------------------------------------------------------------------------
LossReported ==
    /\ signal = <<LostSignal>>
    /\ ~isCurrentlyOpen
    /\ ratioHistory = <<>>
    /\ posHistory = <<>>

\* C18: in the quiet environment (video ready, frames keep firing, every call
\* returns no candidate), from the initial state and from every state whose
\* buffers hold samples, a later step emits the signal with isDetected false
\* and leaves isOpen false and both buffers empty.
C18_LossEventuallyReported == (event = "init" \/ pushes > 0) ~> LossReported

C18_Witness ==
    /\ LossReported
    /\ event = "none"
    /\ missedFrames = 6
    /\ now > QuietFrom

----------------------------------------------------------------------------
\* totalBaseDist / 4 and totalTipDist / 4, written out finger by finger
AvgDist(hand, idx) ==
    Rat(getDist(hand[1], hand[idx[1] + 1]) + getDist(hand[1], hand[idx[2] + 1])
          + getDist(hand[1], hand[idx[3] + 1]) + getDist(hand[1], hand[idx[4] + 1]), 4)

RMax(a, b) == IF RLess(a, b) THEN b ELSE a

Epsilons == {Rat(1, d) : d \in 1..8} \cup {Rat(1, 100), Rat(1, 1000), RInt(2)}

\* sample = avgTipDistance / max(avgBaseDistance, eps)
FitsEpsilon(hand, sample, eps) ==
    sample = RDiv(AvgDist(hand, tips), RMax(AvgDist(hand, bases), eps))

\* C20 as stated: one epsilon makes avgTip / max(avgBase, epsilon) the sample
\* of every observation (here: of two observations in a row).
C20_RatioByMaxEpsilon ==
    [][(event' = "hand" /\ lastHand # <<>>)
        => \E eps \in Epsilons :
             /\ FitsEpsilon(lastHand, ratioHistory[Len(ratioHistory)], eps)
             /\ FitsEpsilon(lastHand', ratioHistory'[Len(ratioHistory')], eps)]_vars

\* C20: the sample pushed for an observation is avgTip / avgBase when avgBase
\* is not 0 and avgTip / 1 when it is 0, the averages being taken over the
\* four fingers; it is a number (non-zero denominator) and not negative.
C20_RatioOrOne ==
    [][event' = "hand"
        => LET sample == ratioHistory'[Len(ratioHistory')]
               avgBase == AvgDist(lastHand', bases)
               avgTip == AvgDist(lastHand', tips)
           IN  /\ sample = (IF avgBase.num = 0 THEN avgTip ELSE RDiv(avgTip, avgBase))
               /\ sample.den > 0
               /\ sample.num >= 0]_vars

C20_Witness ==
    /\ event = "hand"
    /\ lastHand = ZeroBaseHand
    /\ AvgDist(lastHand, bases) = RInt(0)
    /\ ratioHistory[Len(ratioHistory)] = RInt(5)

----------------------------------------------------------------------------
\* C21: after every step, a miss counter above 5 comes with both buffers empty
\* and isOpen false; and every signal emitted with isDetected false has isOpen
\* false and position (0, 0).
C21_LostStateInvariant ==
    /\ missedFrames > 5 =>
          /\ ratioHistory = <<>>
          /\ posHistory = <<>>
          /\ ~isCurrentlyOpen
    /\ \A i \in 1..Len(signal) :
          ~signal[i].isDetected =>
              /\ ~signal[i].isOpen
              /\ signal[i].position = [x |-> RInt(0), y |-> RInt(0)]

C21_Witness ==
    /\ event = "none"
    /\ missedFrames = 6
    /\ lossDiscarded
    /\ Len(signal) = 1
    /\ ~signal[1].isDetected
    /\ posHistory = <<>>

----------------------------------------------------------------------------
\* C22: on a tick with an observation that finds the buffers empty (the first
\* observation overall, or the first one after a confirmed loss) the emitted
\* position is the raw normalized position of that observation and isOpen is
\* true iff the raw ratio of that observation is above 1.6, whatever was
\* observed before the loss.
C22_FreshAfterLoss ==
    [][(event' = "hand" /\ pushes = 0)
        => LET hand == lastHand'
               wrist == hand[1]
               avgBase == AvgDist(hand, bases)
               rawRatio == RDiv(AvgDist(hand, tips), IF avgBase.num = 0 THEN RInt(1) ELSE avgBase)
           IN  /\ Len(signal') = 1
               /\ signal'[1].isDetected
               /\ signal'[1].position =
                     [x |-> Rat(VideoWidth - 2 * wrist[1], VideoWidth),
                      y |-> Rat(VideoHeight - 2 * wrist[2], VideoHeight)]
               /\ signal'[1].isOpen <=> RGreater(rawRatio, Rat(16, 10))
               /\ isCurrentlyOpen' = signal'[1].isOpen
               /\ ratioHistory' = <<rawRatio>>]_vars

C22_Witness ==
    /\ event = "hand"
    /\ lossDiscarded
    /\ pushes = 1
    /\ isCurrentlyOpen
    /\ Len(ratioHistory) = 1
    /\ Len(posHistory) = 1

====
